---- MODULE Spec2Model ----
(***************************************************************************)
(* Model of src/src/services/youtubeExtractor.ts: the identifier resolver, *)
(* the format classifier and scorer, the client profile fetcher and the    *)
(* extraction orchestrator (YouTubeExtractor.extract and its wrappers).    *)
(*                                                                         *)
(* JavaScript strings that the code inspects character by character (the   *)
(* input of extractVideoId, a format's mimeType) are sequences of          *)
(* one-character strings.  Optional properties of a JavaScript object are  *)
(* fields that a record may lack (Has).                                    *)
(***************************************************************************)
EXTENDS Integers, Sequences, FiniteSets, TLC

VARIABLES
  entry,          \* public method called: "extract", "getBestStreamUrl", "parseVideoId"
  input,          \* videoIdOrUrl
  pc,             \* "idle", "awaitHeaders", "awaitBody", "done"
  videoId,        \* const videoId (line 306)
  idx,            \* position of the for-of loop in clients (line 338)
  net,            \* requests in flight at the endpoint, by client position
  timer,          \* the setTimeout of the running fetchPlayerResponse is armed
  bestFormats,    \* let bestFormats (line 335)
  playerResponse, \* let playerResponse (line 336)
  outcome,        \* "pending", "returned", "threw"
  result,         \* value the promise resolved with
  attempts,       \* what each finished attempt of the loop came to, in order
  fetchCount,     \* requests issued so far, per client position
  sf, sg,         \* scoreFormat: the two formats scored
  scoreF, scoreG, \* scoreFormat: their scores
  spc,            \* scoreFormat: "init", "scored"
  pformats,       \* pickBestStream: its argument
  pbest,          \* pickBestStream: its return value
  ppc,            \* pickBestStream: "init", "picked"
  rurl,           \* parseVideoId: the shape, identifier component and extra of its input
  rinput,         \* parseVideoId: its argument
  rid,            \* parseVideoId: its return value
  rid2,           \* parseVideoId: its return value on the value it returned
  rpc,            \* parseVideoId: "init", "resolved", "again"
  cformats,       \* classification: the formats a result is built from
  cstreams,       \* classification: the streams built from them
  cbest,          \* classification: the best stream picked from them
  cpc,            \* classification: "init", "classified"
  calls,          \* concurrent calls of extract: the locals of each call
  cnet            \* concurrent calls: requests in flight, by call and client

mainVars == <<entry, input, pc, videoId, idx, net, timer, bestFormats,
              playerResponse, outcome, result, attempts, fetchCount>>
scoreVars == <<sf, sg, scoreF, scoreG, spc>>
pickVars == <<pformats, pbest, ppc>>
resolveVars == <<rurl, rinput, rid, rid2, rpc>>
classifyVars == <<cformats, cstreams, cbest, cpc>>
callsVars == <<calls, cnet>>
vars == <<mainVars, scoreVars, pickVars, resolveVars, classifyVars, callsVars>>

\* ------------------------------------------------------------------------
\* Strings
\* ------------------------------------------------------------------------

AlphaLower ==
  <<"a","b","c","d","e","f","g","h","i","j","k","l","m","n","o","p","q","r",
    "s","t","u","v","w","x","y","z">>
AlphaUpper ==
  <<"A","B","C","D","E","F","G","H","I","J","K","L","M","N","O","P","Q","R",
    "S","T","U","V","W","X","Y","Z">>
DigitSeq ==
  <<"0","1","2","3","4","5","6","7","8","9">>

Range(s) == {s[i] : i \in 1..Len(s)}

\* [A-Za-z0-9_-]
IdChars == Range(AlphaLower) \cup Range(AlphaUpper) \cup Range(DigitSeq) \cup {"_", "-"}

WhiteSpace == {" ", "\t", "\n", "\r"}

Min(a, b) == IF a < b THEN a ELSE b

\* String.prototype.trim
RECURSIVE TrimLeft(_)
TrimLeft(s) ==
  IF s # <<>> /\ Head(s) \in WhiteSpace THEN TrimLeft(Tail(s)) ELSE s

RECURSIVE TrimRight(_)
TrimRight(s) ==
  IF s # <<>> /\ s[Len(s)] \in WhiteSpace
    THEN TrimRight(SubSeq(s, 1, Len(s) - 1))
    ELSE s

Trim(s) == TrimRight(TrimLeft(s))

\* p occurs in s at position i
MatchAt(s, p, i) ==
  /\ i >= 1
  /\ i + Len(p) - 1 <= Len(s)
  /\ SubSeq(s, i, i + Len(p) - 1) = p

UpperChars == Range(AlphaUpper)

LowerChar(c) ==
  IF c \in UpperChars
    THEN AlphaLower[CHOOSE i \in 1..Len(AlphaUpper) : AlphaUpper[i] = c]
    ELSE c

LowerCase(s) == [i \in 1..Len(s) |-> LowerChar(s[i])]

\* p, in lower case, occurs in s at position i in any case
MatchAtAnyCase(s, p, i) ==
  /\ i >= 1
  /\ i + Len(p) - 1 <= Len(s)
  /\ \A k \in 1..Len(p) : LowerChar(s[i + k - 1]) = p[k]

\* position of the first occurrence of p in s, in any case, at or after from;
\* Len(s) + 1 when there is none
RECURSIVE IndexOfAnyCase(_, _, _)
IndexOfAnyCase(s, p, from) ==
  IF from > Len(s) THEN Len(s) + 1
  ELSE IF MatchAtAnyCase(s, p, from) THEN from
  ELSE IndexOfAnyCase(s, p, from + 1)

\* String.prototype.startsWith
StartsWith(s, p) == MatchAt(s, p, 1)

\* position of the first character of s, at or after from, that is in set cs;
\* Len(s) + 1 when there is none
RECURSIVE IndexOfAny(_, _, _)
IndexOfAny(s, cs, from) ==
  IF from > Len(s) THEN Len(s) + 1
  ELSE IF s[from] \in cs THEN from
  ELSE IndexOfAny(s, cs, from + 1)

\* String.prototype.includes, for a one-character needle
Includes(s, c) == IndexOfAny(s, {c}, 1) <= Len(s)

\* /^[A-Za-z0-9]{11}$/.test(s)
IsCanonicalId_AlphaNumeric(s) ==
  Len(s) = 11 /\ \A i \in 1..11 : s[i] \in IdChars \ {"_", "-"}

\* /^[A-Za-z0-9_-]{11}$/.test(s)
IsCanonicalId(s) == Len(s) = 11 /\ \A i \in 1..11 : s[i] \in IdChars

\* eleven characters of [A-Za-z0-9_-] start at position i of s
IdAt(s, i) ==
  /\ i >= 1
  /\ i + 10 <= Len(s)
  /\ \A k \in i..(i + 10) : s[k] \in IdChars

\* ------------------------------------------------------------------------
\* Identifier resolver (extractVideoId)
\* ------------------------------------------------------------------------

\* the null a string-valued function returns; no string is equal to it
NullStr == <<"null">>

P_Https ==
  <<"h","t","t","p","s",":","/","/">>
P_Http ==
  <<"h","t","t","p",":","/","/">>

HostYoutuBe == <<"y","o","u","t","u",".","b","e">>
PathEmbed == <<"/","e","m","b","e","d","/">>
PathShorts == <<"/","s","h","o","r","t","s","/">>
PathV == <<"/","v","/">>
ParamV == <<"v">>

\* new URL(input), for http and https URLs: the hostname, pathname and query
\* of the input, or ok = FALSE where the constructor throws (no scheme, empty
\* or malformed host)
ParseURL(raw) ==
  LET s == Trim(raw)
      low == LowerCase(s)
      start == IF StartsWith(low, P_Https) THEN Len(P_Https) + 1
               ELSE IF StartsWith(low, P_Http) THEN Len(P_Http) + 1
               ELSE 0
      authEnd == IndexOfAny(s, {"/", "?", "#", "\\"}, start)
      authority == SubSeq(s, start, authEnd - 1)
      at == IndexOfAny(authority, {"@"}, 1)
      hostport == IF at <= Len(authority)
                    THEN SubSeq(authority, at + 1, Len(authority))
                    ELSE authority
      colon == IndexOfAny(hostport, {":"}, 1)
      host == LowerCase(SubSeq(hostport, 1, colon - 1))
      pathEnd == IndexOfAny(s, {"?", "#"}, authEnd)
      hashPos == IndexOfAny(s, {"#"}, pathEnd)
      path == SubSeq(s, authEnd, pathEnd - 1)
  IN IF start = 0 \/ host = <<>> \/ \E i \in 1..Len(host) : host[i] \in WhiteSpace
       THEN [ok |-> FALSE]
       ELSE [ok |-> TRUE,
             hostname |-> host,
             pathname |-> IF path = <<>> THEN <<"/">> ELSE path,
             query |-> IF pathEnd <= Len(s) /\ s[pathEnd] = "?"
                         THEN SubSeq(s, pathEnd + 1, hashPos - 1)
                         ELSE <<>>]

\* url.searchParams.get(name): the value of the first name=value pair of the
\* query with that name, NullStr when there is none
RECURSIVE SearchParamsGet(_, _)
SearchParamsGet(query, name) ==
  IF query = <<>> THEN NullStr
  ELSE LET amp == IndexOfAny(query, {"&"}, 1)
           piece == SubSeq(query, 1, amp - 1)
           rest == SubSeq(query, amp + 1, Len(query))
           eq == IndexOfAny(piece, {"="}, 1)
       IN IF SubSeq(piece, 1, eq - 1) = name
            THEN SubSeq(piece, eq + 1, Len(piece))
            ELSE SearchParamsGet(rest, name)

\* the string itself, not split
FirstSegment_Whole(s) == s

\* String.prototype.split('/')[0]
FirstSegment(s) == SubSeq(s, 1, IndexOfAny(s, {"/"}, 1) - 1)

\* where /\/(embed|shorts|v)\/([A-Za-z0-9_-]{11})/ matches in path: the
\* positions at which the identifier group starts
PathMatches(path) ==
  {j \in 1..Len(path) :
     /\ IdAt(path, j)
     /\ \E kw \in {PathEmbed, PathShorts, PathV} : MatchAt(path, kw, j - Len(kw))}

\* where /[?&]v=([A-Za-z0-9_-]{11})/ matches in s: the positions at which the
\* identifier group starts
ParamMatches(s) ==
  {j \in 4..Len(s) :
     /\ s[j - 3] \in {"?", "&"}
     /\ s[j - 2] = "v"
     /\ s[j - 1] = "="
     /\ IdAt(s, j)}

\* the leftmost match's group
FirstGroup(s, starts) ==
  LET j == CHOOSE j \in starts : \A k \in starts : j <= k
  IN SubSeq(s, j, j + 10)

extractVideoId(in) ==
  IF in = <<>> THEN NullStr
  ELSE IF IsCanonicalId(Trim(in)) THEN Trim(in)
  ELSE LET url == ParseURL(in) IN
    IF url.ok
      THEN LET id == FirstSegment(Tail(url.pathname))
               v == SearchParamsGet(url.query, ParamV)
           IN IF url.hostname = HostYoutuBe /\ id # <<>> /\ IsCanonicalId(id)
                THEN id
              ELSE IF v # NullStr /\ v # <<>> /\ IsCanonicalId(v) THEN v
              ELSE IF PathMatches(url.pathname) # {}
                THEN FirstGroup(url.pathname, PathMatches(url.pathname))
              ELSE NullStr
      ELSE IF ParamMatches(in) # {}
        THEN FirstGroup(in, ParamMatches(in))
        ELSE NullStr

\* ------------------------------------------------------------------------
\* Format classifier (parseMimeType, isMuxedFormat, isVideoMp4)
\* ------------------------------------------------------------------------

\* an InnertubeFormat is a record; an optional property that is not set is a
\* field the record lacks
Has(obj, field) == field \in DOMAIN obj

\* !!obj.field, for a string-valued property
Truthy(obj, field) == Has(obj, field) /\ obj[field] # ""

P_VideoMp4 ==
  <<"v","i","d","e","o","/","m","p","4">>
P_Video ==
  <<"v","i","d","e","o","/">>
P_Codecs ==
  <<"c","o","d","e","c","s","=">>

QuoteChars == {"\"", "'"}

\* s.replace(/codecs=["']?/i, ''): the first codecs= of s, in any case, and a
\* quote that follows it, removed
StripCodecsPrefix(s) ==
  LET i == IndexOfAnyCase(s, P_Codecs, 1)
      after == i + Len(P_Codecs)
      to == IF after <= Len(s) /\ s[after] \in QuoteChars THEN after + 1 ELSE after
  IN IF i > Len(s) THEN s
     ELSE SubSeq(s, 1, i - 1) \o SubSeq(s, to, Len(s))

\* s.replace(/["']$/, '')
StripTrailingQuote(s) ==
  IF s # <<>> /\ s[Len(s)] \in QuoteChars THEN SubSeq(s, 1, Len(s) - 1) ELSE s

\* const [base, codecsPart] = mimeType.split(';'), then container and codecs
parseMimeType(mimeType) ==
  LET semi == IndexOfAny(mimeType, {";"}, 1)
      base == SubSeq(mimeType, 1, semi - 1)
      hasPart == semi <= Len(mimeType)
      next == IndexOfAny(mimeType, {";"}, semi + 1)
      codecsPart == SubSeq(mimeType, semi + 1, next - 1)
  IN [container |-> Trim(base),
      codecs |-> IF hasPart /\ codecsPart # <<>>
                   THEN Trim(StripTrailingQuote(StripCodecsPrefix(codecsPart)))
                   ELSE <<>>]

\* format.mimeType.split(...) and format.mimeType.startsWith(...) throw a
\* TypeError when the format has no mimeType
NoMimeType(format) == ~Has(format, "mimeType")

\* isMuxedFormat by the codecs alone
isMuxedFormat_CodecsOnly(format) ==
  Includes(parseMimeType(format.mimeType).codecs, ",")

isMuxedFormat(format) ==
  \/ Includes(parseMimeType(format.mimeType).codecs, ",")
  \/ (Truthy(format, "audioQuality") /\ Truthy(format, "qualityLabel"))

isVideoMp4(format) == StartsWith(format.mimeType, P_VideoMp4)

formatQualityLabel(format) ==
  IF Truthy(format, "qualityLabel") THEN format.qualityLabel
  ELSE IF Truthy(format, "quality") THEN format.quality
  ELSE "unknown"

\* ------------------------------------------------------------------------
\* Stream scorer (scoreFormat)
\* ------------------------------------------------------------------------

PREFERRED_MUXED_ITAGS == <<22, 59, 78, 135, 134>>

HeightCap == 720
BitrateCap == 3000000
ItagBonusStep == 10000
HeightWeight == 10
BitrateDivisor == 1000

\* PREFERRED_MUXED_ITAGS.indexOf(itag), 0-based, -1 when absent
PreferredIndex(itag) ==
  IF \E i \in 1..Len(PREFERRED_MUXED_ITAGS) : PREFERRED_MUXED_ITAGS[i] = itag
    THEN (CHOOSE i \in 1..Len(PREFERRED_MUXED_ITAGS) :
            PREFERRED_MUXED_ITAGS[i] = itag) - 1
    ELSE -1

itagBonus(format) ==
  IF PreferredIndex(format.itag) # -1
    THEN (Len(PREFERRED_MUXED_ITAGS) - PreferredIndex(format.itag)) * ItagBonusStep
    ELSE 0

\* Math.min(format.height ?? 0, 720) * 10
heightScore(format) ==
  Min(IF Has(format, "height") THEN format.height ELSE 0, HeightCap) * HeightWeight

\* Math.min(format.bitrate ?? 0, 3_000_000), the numerator of bitrateScore
cappedBitrate(format) ==
  Min(IF Has(format, "bitrate") THEN format.bitrate ELSE 0, BitrateCap)

\* scoreFormat returns itagBonus + heightScore + cappedBitrate / 1000, a
\* fraction.  The value here is that score in thousandths, an integer: the
\* code only compares and subtracts scores, and both keep their sign and
\* their equalities under the common factor.
scoreFormat(format) ==
  (itagBonus(format) + heightScore(format)) * BitrateDivisor + cappedBitrate(format)

\* ------------------------------------------------------------------------
\* Format parsing and selection (parseFormats, pickBestStream)
\* ------------------------------------------------------------------------

\* null, where the code's value is otherwise an object
NullObj == [null |-> TRUE]

\* the formats loop (lines 260-262): push every f with a url
RECURSIVE PushDirect(_)
PushDirect(fs) ==
  IF fs = <<>> THEN <<>>
  ELSE IF Truthy(Head(fs), "url")
    THEN <<Head(fs)>> \o PushDirect(Tail(fs))
    ELSE PushDirect(Tail(fs))

\* the adaptiveFormats loop without the isMuxedFormat test
PushDirectMuxed_AnyDirect(fs) == PushDirect(fs)

\* the adaptiveFormats loop (lines 266-268): push every f with a url that
\* isMuxedFormat accepts
RECURSIVE PushDirectMuxed(_)
PushDirectMuxed(fs) ==
  IF fs = <<>> THEN <<>>
  ELSE IF Truthy(Head(fs), "url") /\ isMuxedFormat(Head(fs))
    THEN <<Head(fs)>> \o PushDirectMuxed(Tail(fs))
    ELSE PushDirectMuxed(Tail(fs))

\* parseFormats throws where isMuxedFormat does: on an adaptive format that
\* has a url and no mimeType
parseFormatsThrows(response) ==
  /\ Has(response, "streamingData")
  /\ \E i \in 1..Len(response.streamingData.adaptiveFormats) :
       LET f == response.streamingData.adaptiveFormats[i]
       IN Truthy(f, "url") /\ NoMimeType(f)

parseFormats(response) ==
  IF ~Has(response, "streamingData") THEN <<>>
  ELSE PushDirect(response.streamingData.formats)
         \o PushDirectMuxed(response.streamingData.adaptiveFormats)

\* the ExtractedStream of a format (lines 285-291 and 373-379)
ToStream(f) ==
  [url |-> f.url,
   quality |-> formatQualityLabel(f),
   mimeType |-> f.mimeType,
   itag |-> f.itag,
   hasAudio |-> Truthy(f, "audioQuality") \/ isMuxedFormat(f),
   hasVideo |-> Truthy(f, "qualityLabel") \/ StartsWith(f.mimeType, P_Video),
   bitrate |-> IF Has(f, "bitrate") THEN f.bitrate ELSE 0]

\* building the stream of f throws when f has no mimeType, unless the
\* || of lines 377 and 378 both stop before reading it
ToStreamThrows(f) ==
  NoMimeType(f) /\ ~(Truthy(f, "audioQuality") /\ Truthy(f, "qualityLabel"))

BuildStreamsThrows(formats) == \E i \in 1..Len(formats) : ToStreamThrows(formats[i])

\* formats.filter(isVideoMp4)
RECURSIVE FilterMp4(_)
FilterMp4(fs) ==
  IF fs = <<>> THEN <<>>
  ELSE IF isVideoMp4(Head(fs))
    THEN <<Head(fs)>> \o FilterMp4(Tail(fs))
    ELSE FilterMp4(Tail(fs))

\* Pool without the MP4 filter
Pool_Unfiltered(formats) == formats

\* const pool = mp4Formats.length > 0 ? mp4Formats : formats
Pool(formats) == IF Len(FilterMp4(formats)) > 0 THEN FilterMp4(formats) ELSE formats

\* Array.prototype.sort is stable: x goes behind every element that the
\* comparator scoreFormat(b) - scoreFormat(a) does not put after it
RECURSIVE InsertByScore(_, _)
InsertByScore(x, sorted) ==
  IF sorted = <<>> THEN <<x>>
  ELSE IF scoreFormat(x) - scoreFormat(Head(sorted)) > 0
    THEN <<x>> \o sorted
    ELSE <<Head(sorted)>> \o InsertByScore(x, Tail(sorted))

\* [...pool].sort((a, b) => scoreFormat(b) - scoreFormat(a))
RECURSIVE SortByScore(_)
SortByScore(pool) ==
  IF pool = <<>> THEN <<>>
  ELSE InsertByScore(pool[Len(pool)], SortByScore(SubSeq(pool, 1, Len(pool) - 1)))

\* BuildStreams over the formats in score order
BuildStreams_Sorted(formats) ==
  [i \in 1..Len(formats) |-> ToStream(SortByScore(formats)[i])]

\* bestFormats.map(...) (lines 372-380)
BuildStreams(formats) == [i \in 1..Len(formats) |-> ToStream(formats[i])]

\* pickBestStream throws where isVideoMp4 does: on a format with no mimeType
pickBestStreamThrows(formats) == \E i \in 1..Len(formats) : NoMimeType(formats[i])

\* pickBestStream with the quality of its stream taken from format.quality
\* alone
pickBestStream_Unlabelled(formats) ==
  IF Len(formats) = 0 THEN NullObj
  ELSE LET f == Head(SortByScore(Pool(formats)))
       IN [ToStream(f) EXCEPT
             !.quality = IF Truthy(f, "quality") THEN f.quality ELSE "unknown"]

pickBestStream(formats) ==
  IF Len(formats) = 0 THEN NullObj
  ELSE ToStream(Head(SortByScore(Pool(formats))))

\* ------------------------------------------------------------------------
\* The endpoint: what a player request of client c can be answered with
\* ------------------------------------------------------------------------

\* the clients array (lines 315-333), by name
clients == <<"ANDROID", "IOS", "TVHTML5_EMBEDDED">>

NumClients == Len(clients)

\* formats of one response: formats and adaptiveFormats together
MaxFormats == 2

M_Mp4Muxed ==
  <<"v","i","d","e","o","/","m","p","4",";"," ","c","o","d","e","c","s","=",
    "\"","a","v","c","1",".","6","4","0","0","1","F",","," ","m","p","4",
    "a",".","4","0",".","2","\"">>
M_Mp4Video ==
  <<"v","i","d","e","o","/","m","p","4",";"," ","c","o","d","e","c","s","=",
    "\"","a","v","c","1",".","6","4","0","0","2","8","\"">>
M_WebmMuxed ==
  <<"v","i","d","e","o","/","w","e","b","m",";"," ","c","o","d","e","c","s",
    "=","\"","v","p","8",".","0",","," ","v","o","r","b","i","s","\"">>
M_Mp4Audio ==
  <<"a","u","d","i","o","/","m","p","4",";"," ","c","o","d","e","c","s","=",
    "\"","m","p","4","a",".","4","0",".","2","\"">>
M_3gpp ==
  <<"v","i","d","e","o","/","3","g","p","p">>

\* a direct URL as the endpoint hands it to client c
Url(c, name) == "https://googlevideo.example/videoplayback?c=" \o clients[c] \o "&f=" \o name

Mp4Muxed720(c) ==
  [itag |-> 22, url |-> Url(c, "22"), mimeType |-> M_Mp4Muxed, bitrate |-> 2000000,
   height |-> 720, quality |-> "hd720", qualityLabel |-> "720p",
   audioQuality |-> "AUDIO_QUALITY_MEDIUM"]

Mp4Muxed360(c) ==
  [itag |-> 18, url |-> Url(c, "18"), mimeType |-> M_Mp4Muxed, bitrate |-> 500000,
   height |-> 360, quality |-> "medium", qualityLabel |-> "360p",
   audioQuality |-> "AUDIO_QUALITY_LOW"]

WebmMuxed360(c) ==
  [itag |-> 43, url |-> Url(c, "43"), mimeType |-> M_WebmMuxed, bitrate |-> 500000,
   height |-> 360, quality |-> "medium"]

Mp4VideoOnly1080(c) ==
  [itag |-> 137, url |-> Url(c, "137"), mimeType |-> M_Mp4Video, bitrate |-> 4000000,
   height |-> 1080, quality |-> "hd1080", qualityLabel |-> "1080p"]

\* a format that carries a signature cipher and no url
CipherOnly ==
  [itag |-> 22, signatureCipher |-> "s=AOq0QJ8&sp=sig&url=https", mimeType |-> M_Mp4Muxed,
   bitrate |-> 2000000, height |-> 720, quality |-> "hd720", qualityLabel |-> "720p",
   audioQuality |-> "AUDIO_QUALITY_MEDIUM"]

\* a format object that lacks the mimeType the interface declares
NoMime(c) == [itag |-> 22, url |-> Url(c, "22x"), bitrate |-> 2000000, quality |-> "hd720"]

FormatsCatalogue(c) == {Mp4Muxed720(c), WebmMuxed360(c), Mp4VideoOnly1080(c), CipherOnly, NoMime(c)}

AdaptiveCatalogue(c) == {Mp4Muxed360(c), Mp4VideoOnly1080(c), CipherOnly, NoMime(c)}

SeqsUpTo(S, n) == UNION {[1..k -> S] : k \in 0..n}

StreamingDatas(c) ==
  {[formats |-> fs, adaptiveFormats |-> as] :
     <<fs, as>> \in {p \in SeqsUpTo(FormatsCatalogue(c), MaxFormats)
                            \X SeqsUpTo(AdaptiveCatalogue(c), MaxFormats) :
                       Len(p[1]) + Len(p[2]) <= MaxFormats}}

Statuses == {"OK", "UNPLAYABLE", "LOGIN_REQUIRED"}

LengthSeconds == <<"2","1","2">>

VideoDetails(c) == [videoId |-> "dQw4w9WgXcQ", title |-> "Title as " \o clients[c], lengthSeconds |-> LengthSeconds]

\* the JSON bodies the endpoint may send to client c (InnertubePlayerResponse,
\* every property optional)
Responses(c) ==
  {[playabilityStatus |-> [status |-> s], streamingData |-> sd, videoDetails |-> VideoDetails(c)] :
     s \in Statuses, sd \in StreamingDatas(c)}
  \cup {[playabilityStatus |-> [status |-> s], streamingData |-> sd] :
          s \in Statuses, sd \in StreamingDatas(c)}
  \cup {[streamingData |-> sd, videoDetails |-> VideoDetails(c)] : sd \in StreamingDatas(c)}
  \cup {[playabilityStatus |-> [status |-> s, reason |-> "Sign in to confirm your age"]] :
          s \in Statuses}

\* ------------------------------------------------------------------------
\* Extraction orchestrator (YouTubeExtractor.extract, getBestStreamUrl,
\* parseVideoId) and client profile fetcher (fetchPlayerResponse)
\*
\* JavaScript runs a continuation to its next await without interruption, so
\* an action is one such run: from the event that resumes the call (the
\* call itself, the response headers, the body, an error, the timer) to the
\* next request in flight or to the call's end.
\* ------------------------------------------------------------------------

REQUEST_TIMEOUT_MS == 12000

Entries == {"extract", "getBestStreamUrl", "parseVideoId"}

S_BareId ==
  <<"d","Q","w","4","w","9","W","g","X","c","Q">>
S_ShortLink ==
  <<"h","t","t","p","s",":","/","/","y","o","u","t","u",".","b","e","/","d",
    "Q","w","4","w","9","W","g","X","c","Q">>
S_Garbage ==
  <<"n","o","t"," ","a"," ","u","r","l">>

Inputs == {<<>>, S_BareId, S_ShortLink, S_Garbage}

\* parseInt(s, 10), for unsigned input: the decimal digits s starts with,
\* after white space; NaN when there is none
RECURSIVE DigitsValue(_, _)
DigitsValue(s, acc) ==
  IF s = <<>> \/ Head(s) \notin Range(DigitSeq) THEN acc
  ELSE DigitsValue(Tail(s),
         acc * 10 + (CHOOSE d \in 0..9 : DigitSeq[d + 1] = Head(s)))

parseInt(s) ==
  LET t == TrimLeft(s)
  IN IF t = <<>> \/ Head(t) \notin Range(DigitSeq)
       THEN [nan |-> TRUE, value |-> 0]
       ELSE [nan |-> FALSE, value |-> DigitsValue(t, 0)]

\* if (!videoId) (line 307)
Resolved(id) == id # NullStr /\ id # <<>>

\* IsGated with the LOGIN_REQUIRED comparison left out
IsGated_UnplayableOnly(response) ==
  /\ Has(response, "playabilityStatus")
  /\ Has(response.playabilityStatus, "status")
  /\ response.playabilityStatus.status = "UNPLAYABLE"

\* status === 'UNPLAYABLE' || status === 'LOGIN_REQUIRED' (line 345)
IsGated(response) ==
  /\ Has(response, "playabilityStatus")
  /\ Has(response.playabilityStatus, "status")
  /\ response.playabilityStatus.status \in {"UNPLAYABLE", "LOGIN_REQUIRED"}

\* the response lists a format with a direct URL, in either collection
HasDirect(response) ==
  /\ Has(response, "streamingData")
  /\ \/ \E i \in 1..Len(response.streamingData.formats) :
          Truthy(response.streamingData.formats[i], "url")
     \/ \E i \in 1..Len(response.streamingData.adaptiveFormats) :
          Truthy(response.streamingData.adaptiveFormats[i], "url")

\* AfterAbort with the request sent without the controller's signal
AfterAbort_NoSignal(inFlight, c) == inFlight

\* AfterAbort with one controller shared by every request
AfterAbort_SharedController(inFlight, c) == {}

\* controller.abort() (line 207) cancels the request that carries its signal
\* (line 229)
AfterAbort(inFlight, c) == inFlight \ {c}

\* NextClient with the failed client tried again
NextClient_Retry(c) == c

\* for (const client of clients): the client after position c (line 338)
NextClient(c) == c + 1

\* the result object of lines 384-393
ExtractionResult(id, formats, response) ==
  LET base == [streams |-> BuildStreams(formats),
               bestStream |-> pickBestStream(formats),
               videoId |-> id]
      details == response.videoDetails
      withTitle == IF Has(response, "videoDetails") /\ Has(details, "title")
                     THEN base @@ [title |-> details.title]
                     ELSE base
  IN IF /\ Has(response, "videoDetails")
        /\ Has(details, "lengthSeconds")
        /\ details.lengthSeconds # <<>>
       THEN withTitle @@ [durationSeconds |-> parseInt(details.lengthSeconds)]
       ELSE withTitle

\* what the public method called hands to its caller when extract returns
\* value: getBestStreamUrl returns result?.bestStream?.url ?? null (line 410)
Returned(value) ==
  IF entry = "getBestStreamUrl"
    THEN IF value # NullObj /\ value.bestStream # NullObj
           THEN [string |-> value.bestStream.url]
           ELSE NullObj
    ELSE value

\* the call ends: it returns value, or an exception leaves it
Ends(how, value, inFlight, atts) ==
  /\ pc' = "done"
  /\ outcome' = how
  /\ result' = value
  /\ net' = inFlight
  /\ timer' = FALSE
  /\ attempts' = atts
  /\ UNCHANGED <<entry, input, videoId, idx, fetchCount>>

\* fetchPlayerResponse for client c, to its await of fetch (lines 206-231):
\* the timer is armed and the request is sent
Fetches(c, inFlight, atts) ==
  /\ idx' = c
  /\ net' = inFlight \cup {c}
  /\ timer' = TRUE
  /\ fetchCount' = [fetchCount EXCEPT ![c] = @ + 1]
  /\ pc' = "awaitHeaders"
  /\ attempts' = atts
  /\ UNCHANGED <<entry, input, outcome, result>>

\* the attempt of client idx failed (continue, lines 342, 350, 364): the loop
\* goes on to the next client, or ends with bestFormats empty (lines 367-370)
Continues(kind, direct, inFlight) ==
  LET atts == Append(attempts, [client |-> idx, kind |-> kind, direct |-> direct])
  IN /\ IF idx < NumClients
          THEN Fetches(NextClient(idx), inFlight, atts) /\ UNCHANGED videoId
          ELSE Ends("returned", Returned(NullObj), inFlight, atts)
     /\ UNCHANGED <<bestFormats, playerResponse>>

\* Succeeds without the break: the formats are kept and the loop goes on to
\* the clients that are left
Succeeds_NoBreak(response, formats, inFlight) ==
  LET atts == Append(attempts, [client |-> idx, kind |-> "success", direct |-> TRUE])
  IN /\ bestFormats' = formats
     /\ playerResponse' = response
     /\ IF idx < NumClients
          THEN Fetches(NextClient(idx), inFlight, atts) /\ UNCHANGED videoId
        ELSE IF BuildStreamsThrows(formats) \/ pickBestStreamThrows(formats)
          THEN Ends("threw", [error |-> "TypeError"], inFlight, atts)
          ELSE Ends("returned", Returned(ExtractionResult(videoId, formats, response)),
                    inFlight, atts)

\* the attempt of client idx got formats (lines 354-361), the loop breaks and
\* the result is built (lines 372-402)
Succeeds(response, formats, inFlight) ==
  LET atts == Append(attempts, [client |-> idx, kind |-> "success", direct |-> TRUE])
  IN /\ bestFormats' = formats
     /\ playerResponse' = response
     /\ IF BuildStreamsThrows(formats) \/ pickBestStreamThrows(formats)
          THEN Ends("threw", [error |-> "TypeError"], inFlight, atts)
          ELSE Ends("returned", Returned(ExtractionResult(videoId, formats, response)),
                    inFlight, atts)

\* extract's loop body after fetchPlayerResponse returned resp (lines 342-364)
Handles(resp, inFlight) ==
  IF resp = NullObj THEN Continues("null", FALSE, inFlight)
  ELSE IF IsGated(resp)
    THEN Continues(resp.playabilityStatus.status, HasDirect(resp), inFlight)
  ELSE IF parseFormatsThrows(resp)
    THEN /\ Ends("threw", [error |-> "TypeError"], inFlight, attempts)
         /\ UNCHANGED <<bestFormats, playerResponse>>
  ELSE IF Len(parseFormats(resp)) > 0
    THEN Succeeds(resp, parseFormats(resp), inFlight)
  ELSE Continues("noformats", FALSE, inFlight)

\* a public method is called (lines 305-340, 408-409, 417-419)
Call ==
  /\ pc = "idle"
  /\ LET id == extractVideoId(input)
     IN IF entry = "parseVideoId"
          THEN /\ Ends("returned", IF id = NullStr THEN NullObj ELSE [string |-> id],
                       net, attempts)
               /\ UNCHANGED <<bestFormats, playerResponse>>
        ELSE IF ~Resolved(id)
          THEN /\ Ends("returned", Returned(NullObj), net, attempts)
               /\ UNCHANGED <<bestFormats, playerResponse>>
        ELSE /\ videoId' = id
             /\ Fetches(1, net, attempts)
             /\ UNCHANGED <<bestFormats, playerResponse>>
  /\ UNCHANGED <<scoreVars, pickVars, resolveVars, classifyVars, callsVars>>

\* fetch resolves with a success status: clearTimeout (line 233), then
\* await response.json() (line 240)
HeadersOk ==
  /\ pc = "awaitHeaders"
  /\ idx \in net
  /\ timer' = FALSE
  /\ pc' = "awaitBody"
  /\ UNCHANGED <<entry, input, videoId, idx, net, bestFormats, playerResponse,
                 outcome, result, attempts, fetchCount>>
  /\ UNCHANGED <<scoreVars, pickVars, resolveVars, classifyVars, callsVars>>

\* fetch resolves with !response.ok: clearTimeout, return null (lines 233-238)
HeadersNotOk ==
  /\ pc = "awaitHeaders"
  /\ idx \in net
  /\ Continues("http", FALSE, net \ {idx})
  /\ UNCHANGED <<scoreVars, pickVars, resolveVars, classifyVars, callsVars>>

\* fetch rejects with a transport error: catch, return null (lines 242-249)
FetchRejects ==
  /\ pc = "awaitHeaders"
  /\ idx \in net
  /\ Continues("error", FALSE, net \ {idx})
  /\ UNCHANGED <<scoreVars, pickVars, resolveVars, classifyVars, callsVars>>

\* the timer fires: controller.abort() (line 207), fetch rejects with an
\* AbortError, return null (lines 242-249)
TimerFires ==
  /\ timer
  /\ pc = "awaitHeaders"
  /\ Continues("timeout", FALSE, AfterAbort(net, idx))
  /\ UNCHANGED <<scoreVars, pickVars, resolveVars, classifyVars, callsVars>>

\* response.json() resolves with the parsed body (lines 240-241)
BodyDelivered ==
  /\ pc = "awaitBody"
  /\ idx \in net
  /\ \E body \in Responses(idx) \cup {NullObj} : Handles(body, net \ {idx})
  /\ UNCHANGED <<scoreVars, pickVars, resolveVars, classifyVars, callsVars>>

\* response.json() rejects, on a body that is no JSON or a connection that
\* breaks: catch, return null (lines 242-249)
BodyFails ==
  /\ pc = "awaitBody"
  /\ idx \in net
  /\ Continues("error", FALSE, net \ {idx})
  /\ UNCHANGED <<scoreVars, pickVars, resolveVars, classifyVars, callsVars>>


\* ------------------------------------------------------------------------
\* scoreFormat and pickBestStream on their own
\* ------------------------------------------------------------------------

\* the formats pickBestStream is given hold at most this many
MaxLen == 3

ScoreItags == {22, 134, 18, 43}
ScoreHeights == {360, 480, 720, 1080}
ScoreBitrates == {0, 500000, 3000000, 4000000}

\* formats as scoreFormat reads them: itag, bitrate and the optional height
ScoreFormats ==
  {[itag |-> i, height |-> h, bitrate |-> b] :
     i \in ScoreItags, h \in ScoreHeights, b \in ScoreBitrates}
  \cup {[itag |-> i, bitrate |-> b] : i \in ScoreItags, b \in ScoreBitrates}

Score ==
  /\ spc = "init"
  /\ scoreF' = scoreFormat(sf)
  /\ scoreG' = scoreFormat(sg)
  /\ spc' = "scored"
  /\ UNCHANGED <<sf, sg>>
  /\ UNCHANGED <<mainVars, pickVars, resolveVars, classifyVars, callsVars>>

\* formats that passed parseFormats: each has a url and a mimeType
PickFormats ==
  {Mp4Muxed720(1), Mp4Muxed360(1), Mp4Muxed360(2), WebmMuxed360(1),
   [WebmMuxed360(2) EXCEPT !.itag = 45, !.height = 720, !.bitrate = 2000000],
   [WebmMuxed360(3) EXCEPT !.itag = 45, !.height = 720, !.bitrate = 2000000],
   [itag |-> 36, url |-> Url(1, "36"), mimeType |-> M_3gpp, bitrate |-> 200000,
    height |-> 240, quality |-> "small"],
   [itag |-> 140, url |-> Url(1, "140"), mimeType |-> M_Mp4Audio, bitrate |-> 130000,
    quality |-> "tiny", audioQuality |-> "AUDIO_QUALITY_MEDIUM"]}

Pick ==
  /\ ppc = "init"
  /\ pbest' = pickBestStream(pformats)
  /\ ppc' = "picked"
  /\ UNCHANGED pformats
  /\ UNCHANGED <<mainVars, scoreVars, resolveVars, classifyVars, callsVars>>

\* ------------------------------------------------------------------------
\* parseVideoId on its own: inputs of every shape the resolver knows
\* ------------------------------------------------------------------------

\* how many characters an identifier component is cut short or drawn out by
MaxDelta == 2

Id_A ==
  <<"d","Q","w","4","w","9","W","g","X","c","Q">>
Id_B ==
  <<"_","-","0","a","Z","9","_","-","b","Y","1">>

SampleIds == {Id_A, Id_B}

\* canonical identifiers: the samples and every identifier over two characters
CanonicalIds == SampleIds \cup [1..11 -> {"Z", "-"}]

U_ShortLink ==
  <<"h","t","t","p","s",":","/","/","y","o","u","t","u",".","b","e","/">>
U_Watch ==
  <<"h","t","t","p","s",":","/","/","w","w","w",".","y","o","u","t","u","b",
    "e",".","c","o","m","/","w","a","t","c","h","?","v","=">>
U_WatchShared ==
  <<"h","t","t","p",":","/","/","m",".","y","o","u","t","u","b","e",".","c",
    "o","m","/","w","a","t","c","h","?","f","e","a","t","u","r","e","=","s",
    "h","a","r","e","&","v","=">>
U_Embed ==
  <<"h","t","t","p","s",":","/","/","w","w","w",".","y","o","u","t","u","b",
    "e",".","c","o","m","/","e","m","b","e","d","/">>
U_Shorts ==
  <<"h","t","t","p","s",":","/","/","w","w","w",".","y","o","u","t","u","b",
    "e",".","c","o","m","/","s","h","o","r","t","s","/">>
U_V ==
  <<"h","t","t","p","s",":","/","/","w","w","w",".","y","o","u","t","u","b",
    "e",".","c","o","m","/","v","/">>

\* the URL shapes, by name: what precedes the identifier component
ShapePrefix ==
  [short |-> U_ShortLink, watch |-> U_Watch, watchShared |-> U_WatchShared,
   embed |-> U_Embed, shorts |-> U_Shorts, v |-> U_V, bare |-> <<>>]

QueryShapes == {"watch", "watchShared"}
PathShapes == {"short", "embed", "shorts", "v"}
URLShapes == QueryShapes \cup PathShapes

E_Query ==
  <<"?","t","=","4","2">>
E_MoreQuery ==
  <<"&","l","i","s","t","=","P","L","x","-","_","1">>
E_Segment ==
  <<"/","e","x","t","r","a">>
E_SegmentQuery ==
  <<"/","e","x","t","r","a","?","f","e","a","t","u","r","e","=","s","h","a",
    "r","e">>
E_Fragment ==
  <<"#","t","=","1","0">>

\* what may follow the identifier component: nothing, further query
\* parameters, trailing path segments, a fragment
Extras(shape) ==
  IF shape \in QueryShapes THEN {<<>>, E_MoreQuery, E_Fragment}
  ELSE IF shape \in PathShapes
    THEN {<<>>, E_Query, E_Segment, E_SegmentQuery, E_Fragment}
  ELSE {<<>>}

A_Allowed == "Z"
A_Disallowed == "!"

Repeat(c, n) == [i \in 1..n |-> c]

\* id with the character at position p replaced by c
Replaced(id, p, c) == [i \in 1..Len(id) |-> IF i = p THEN c ELSE id[i]]

\* identifier components that are not canonical: cut short, drawn out by
\* allowed or disallowed characters, or with a disallowed character inside
Malformed(id) ==
  {SubSeq(id, 1, Len(id) - k) : k \in 1..MaxDelta}
    \cup {id \o Repeat(A_Allowed, k) : k \in 1..MaxDelta}
    \cup {id \o Repeat(A_Disallowed, k) : k \in 1..MaxDelta}
    \cup {Replaced(id, p, A_Disallowed) : p \in {1, 6, Len(id)}}

Components(shape) ==
  IF shape = "bare" THEN CanonicalIds
  ELSE SampleIds \cup UNION {Malformed(id) : id \in SampleIds}

ResolverInputs ==
  {[shape |-> sh, component |-> c, extra |-> e] :
     <<sh, c, e>> \in UNION {{sh} \X Components(sh) \X Extras(sh) :
                              sh \in DOMAIN ShapePrefix}}

\* the input string of that shape
Compose(u) == ShapePrefix[u.shape] \o u.component \o u.extra

\* YouTubeExtractor.parseVideoId(input)
parseVideoId(in) == extractVideoId(in)

Resolve ==
  /\ rpc = "init"
  /\ rid' = parseVideoId(rinput)
  /\ rpc' = "resolved"
  /\ UNCHANGED <<rurl, rinput, rid2>>
  /\ UNCHANGED <<mainVars, scoreVars, pickVars, classifyVars, callsVars>>

\* the identifier returned is resolved in turn
ResolveAgain ==
  /\ rpc = "resolved"
  /\ rid # NullStr
  /\ rid2' = parseVideoId(rid)
  /\ rpc' = "again"
  /\ UNCHANGED <<rurl, rinput, rid>>
  /\ UNCHANGED <<mainVars, scoreVars, pickVars, classifyVars, callsVars>>

\* ------------------------------------------------------------------------
\* Classification on its own: the streams of any list of retained formats
\* ------------------------------------------------------------------------

\* retained formats of one result
MaxClassified == 2

M_WebmAudio ==
  <<"a","u","d","i","o","/","w","e","b","m",";"," ","c","o","d","e","c","s",
    "=","\"","o","p","u","s","\"">>

\* MIME types as the endpoint sends them, by name
ClassifyMimes ==
  [mp4av |-> M_Mp4Muxed, mp4v |-> M_Mp4Video, webmav |-> M_WebmMuxed,
   mp4a |-> M_Mp4Audio, weba |-> M_WebmAudio, tgpp |-> M_3gpp]

\* a retained format of that MIME type, with or without the audioQuality and
\* qualityLabel properties; its url names the three
ClassifyFormat(m, aq, ql) ==
  LET base == [itag |-> 18,
               url |-> "https://googlevideo.example/" \o m
                         \o (IF aq THEN "+aq" ELSE "") \o (IF ql THEN "+ql" ELSE ""),
               mimeType |-> ClassifyMimes[m]]
      withAq == IF aq THEN base @@ [audioQuality |-> "AUDIO_QUALITY_LOW"] ELSE base
  IN IF ql THEN withAq @@ [qualityLabel |-> "360p"] ELSE withAq

ClassifyFormats ==
  {ClassifyFormat(m, aq, ql) : m \in DOMAIN ClassifyMimes, aq \in BOOLEAN, ql \in BOOLEAN}

\* the streams and the best stream of lines 372-382
Classify ==
  /\ cpc = "init"
  /\ cstreams' = BuildStreams(cformats)
  /\ cbest' = pickBestStream(cformats)
  /\ cpc' = "classified"
  /\ UNCHANGED cformats
  /\ UNCHANGED <<mainVars, scoreVars, pickVars, resolveVars, callsVars>>

\* ------------------------------------------------------------------------
\* Concurrent calls of extract
\* ------------------------------------------------------------------------

\* calls of extract that run at the same time
MaxCalls == 2

\* the argument of call k: two videos, as an identifier and as a short link
CallInput(k) == IF k % 2 = 1 THEN Id_A ELSE U_ShortLink \o Id_B

\* the bodies the endpoint may send to client c: a gated one that lists a
\* direct-URL format, and a playable one with a format and metadata
CallResponses(c) ==
  {[playabilityStatus |-> [status |-> "LOGIN_REQUIRED"],
    streamingData |-> [formats |-> <<Mp4Muxed360(c)>>, adaptiveFormats |-> <<>>]],
   [playabilityStatus |-> [status |-> "OK"],
    streamingData |-> [formats |-> <<Mp4Muxed720(c)>>, adaptiveFormats |-> <<>>],
    videoDetails |-> VideoDetails(c)]}

\* the locals of a call that has not begun; got is what the endpoint did to
\* each of its requests so far, overlapped whether another call's timer
\* fired while a request of this call was in flight
CallIdle ==
  [pc |-> "idle", videoId |-> NullStr, idx |-> 0, timer |-> FALSE,
   bestFormats |-> <<>>, playerResponse |-> NullObj, outcome |-> "pending",
   result |-> NullObj, got |-> <<>>, overlapped |-> FALSE]

\* fetchPlayerResponse for client c, to its await of fetch (lines 206-231)
CallFetches(st, c) == [st EXCEPT !.idx = c, !.timer = TRUE, !.pc = "awaitHeaders"]

CallEnds(st, how, value) ==
  [st EXCEPT !.pc = "done", !.outcome = how, !.result = value, !.timer = FALSE]

\* continue (lines 342, 350, 364), or the end of the loop (lines 367-370)
CallContinues(st) ==
  IF st.idx < NumClients THEN CallFetches(st, NextClient(st.idx))
  ELSE CallEnds(st, "returned", NullObj)

\* the loop body after fetchPlayerResponse returned resp (lines 342-402)
CallHandles(st, resp) ==
  IF resp = NullObj \/ IsGated(resp) THEN CallContinues(st)
  ELSE IF parseFormatsThrows(resp) THEN CallEnds(st, "threw", [error |-> "TypeError"])
  ELSE IF Len(parseFormats(resp)) > 0
    THEN LET formats == parseFormats(resp)
             kept == [st EXCEPT !.bestFormats = formats, !.playerResponse = resp]
         IN IF BuildStreamsThrows(formats) \/ pickBestStreamThrows(formats)
              THEN CallEnds(kept, "threw", [error |-> "TypeError"])
              ELSE CallEnds(kept, "returned",
                            ExtractionResult(st.videoId, formats, resp))
  ELSE CallContinues(st)

\* the requests in flight once call k has come to st: a call that awaits
\* fetch has sent its request (line 216)
WithRequest(inFlight, k, st) ==
  IF st.pc = "awaitHeaders" THEN inFlight \cup {<<k, st.idx>>} ELSE inFlight

\* call k received event from the endpoint and is now in st
CallMoves(k, event, st, inFlight) ==
  /\ calls' = [calls EXCEPT ![k] = [st EXCEPT !.got = Append(@, event)]]
  /\ cnet' = WithRequest(inFlight, k, calls'[k])

\* extract resolves its argument to id: it returns null (line 309) or goes
\* to its first client
CallBegins(st, id) ==
  IF ~Resolved(id) THEN CallEnds(st, "returned", NullObj)
  ELSE CallFetches([st EXCEPT !.videoId = id], 1)

\* extract is called (lines 305-340)
CallStarts(k) ==
  /\ calls[k].pc = "idle"
  /\ calls' = [calls EXCEPT ![k] = CallBegins(@, extractVideoId(CallInput(k)))]
  /\ cnet' = WithRequest(cnet, k, calls'[k])
  /\ UNCHANGED <<mainVars, scoreVars, pickVars, resolveVars, classifyVars>>

\* fetch of call k resolves with a success status (lines 233, 240)
CallHeadersOk(k) ==
  /\ calls[k].pc = "awaitHeaders"
  /\ <<k, calls[k].idx>> \in cnet
  /\ calls' = [calls EXCEPT ![k].timer = FALSE, ![k].pc = "awaitBody"]
  /\ UNCHANGED cnet
  /\ UNCHANGED <<mainVars, scoreVars, pickVars, resolveVars, classifyVars>>

\* the timer of call k fires: its controller aborts (line 207), its fetch
\* rejects (lines 242-249)
CallTimerFires(k) ==
  /\ calls[k].timer
  /\ calls[k].pc = "awaitHeaders"
  /\ calls' = [j \in 1..MaxCalls |->
                 IF j = k
                   THEN [CallContinues(calls[k]) EXCEPT
                           !.got = Append(@, [kind |-> "timeout"])]
                 ELSE IF <<j, calls[j].idx>> \in cnet
                   THEN [calls[j] EXCEPT !.overlapped = TRUE]
                 ELSE calls[j]]
  /\ cnet' = WithRequest(AfterAbort(cnet, <<k, calls[k].idx>>), k, calls'[k])
  /\ UNCHANGED <<mainVars, scoreVars, pickVars, resolveVars, classifyVars>>

\* response.json() of call k resolves with the parsed body (lines 240-241)
CallBodyDelivered(k) ==
  /\ calls[k].pc = "awaitBody"
  /\ <<k, calls[k].idx>> \in cnet
  /\ \E body \in CallResponses(calls[k].idx) :
       CallMoves(k, [kind |-> "body", body |-> body], CallHandles(calls[k], body),
                 cnet \ {<<k, calls[k].idx>>})
  /\ UNCHANGED <<mainVars, scoreVars, pickVars, resolveVars, classifyVars>>

\* ------------------------------------------------------------------------
\* Specifications
\* ------------------------------------------------------------------------

MainIdle ==
  /\ pc = "idle"
  /\ videoId = NullStr
  /\ idx = 0
  /\ net = {}
  /\ timer = FALSE
  /\ bestFormats = <<>>
  /\ playerResponse = NullObj
  /\ outcome = "pending"
  /\ result = NullObj
  /\ attempts = <<>>
  /\ fetchCount = [c \in 1..NumClients |-> 0]

ScoreIdle ==
  /\ sf = [itag |-> 22, bitrate |-> 0]
  /\ sg = [itag |-> 22, bitrate |-> 0]
  /\ scoreF = 0
  /\ scoreG = 0
  /\ spc = "off"

PickIdle ==
  /\ pformats = <<>>
  /\ pbest = NullObj
  /\ ppc = "off"

ResolveIdle ==
  /\ rurl = [shape |-> "bare", component |-> <<>>, extra |-> <<>>]
  /\ rinput = <<>>
  /\ rid = NullStr
  /\ rid2 = NullStr
  /\ rpc = "off"

ClassifyIdle ==
  /\ cformats = <<>>
  /\ cstreams = <<>>
  /\ cbest = NullObj
  /\ cpc = "off"

CallsIdle ==
  /\ calls = <<>>
  /\ cnet = {}

\* one call of a public method, on any input, against any endpoint
Init ==
  /\ entry \in Entries
  /\ input \in Inputs
  /\ MainIdle
  /\ ScoreIdle
  /\ PickIdle
  /\ ResolveIdle
  /\ ClassifyIdle
  /\ CallsIdle

Next ==
  \/ Call
  \/ HeadersOk
  \/ HeadersNotOk
  \/ FetchRejects
  \/ TimerFires
  \/ BodyDelivered
  \/ BodyFails

Spec == Init /\ [][Next]_vars

\* scoreFormat applied to any two formats
ScoreInit ==
  /\ entry = "extract"
  /\ input = <<>>
  /\ MainIdle
  /\ PickIdle
  /\ ResolveIdle
  /\ ClassifyIdle
  /\ CallsIdle
  /\ sf \in ScoreFormats
  /\ sg \in ScoreFormats
  /\ scoreF = 0
  /\ scoreG = 0
  /\ spc = "init"

ScoreNext == Score

ScoreSpec == ScoreInit /\ [][ScoreNext]_vars

\* pickBestStream applied to any list of formats
PickInit ==
  /\ entry = "extract"
  /\ input = <<>>
  /\ MainIdle
  /\ ScoreIdle
  /\ ResolveIdle
  /\ ClassifyIdle
  /\ CallsIdle
  /\ pformats \in SeqsUpTo(PickFormats, MaxLen)
  /\ pbest = NullObj
  /\ ppc = "init"

PickNext == Pick

PickSpec == PickInit /\ [][PickNext]_vars

\* parseVideoId applied to any input, and again to what it returned
ResolveInit ==
  /\ entry = "parseVideoId"
  /\ input = <<>>
  /\ MainIdle
  /\ ScoreIdle
  /\ PickIdle
  /\ ClassifyIdle
  /\ CallsIdle
  /\ rurl \in ResolverInputs
  /\ rinput = Compose(rurl)
  /\ rid = NullStr
  /\ rid2 = NullStr
  /\ rpc = "init"

ResolveNext ==
  \/ Resolve
  \/ ResolveAgain

ResolveSpec == ResolveInit /\ [][ResolveNext]_vars

\* the streams and the best stream of any list of retained formats
ClassifyInit ==
  /\ entry = "extract"
  /\ input = <<>>
  /\ MainIdle
  /\ ScoreIdle
  /\ PickIdle
  /\ ResolveIdle
  /\ CallsIdle
  /\ cformats \in SeqsUpTo(ClassifyFormats, MaxClassified)
  /\ cstreams = <<>>
  /\ cbest = NullObj
  /\ cpc = "init"

ClassifyNext == Classify

ClassifySpec == ClassifyInit /\ [][ClassifyNext]_vars

\* MaxCalls calls of extract, each against any endpoint, in any interleaving
CallsInit ==
  /\ entry = "extract"
  /\ input = <<>>
  /\ MainIdle
  /\ ScoreIdle
  /\ PickIdle
  /\ ResolveIdle
  /\ ClassifyIdle
  /\ calls = [k \in 1..MaxCalls |-> CallIdle]
  /\ cnet = {}

CallsNext ==
  \E k \in 1..MaxCalls :
    \/ CallStarts(k)
    \/ CallHeadersOk(k)
    \/ CallTimerFires(k)
    \/ CallBodyDelivered(k)

CallsSpec == CallsInit /\ [][CallsNext]_vars

\* ------------------------------------------------------------------------
\* Properties
\* ------------------------------------------------------------------------

\* how an attempt is recorded when fetchPlayerResponse returned null
UnavailableKinds == {"timeout", "http", "error", "null"}

GatedStatuses == {"UNPLAYABLE", "LOGIN_REQUIRED"}

FailedKinds == UnavailableKinds \cup GatedStatuses \cup {"noformats"}

AttemptKinds == [i \in 1..Len(attempts) |-> attempts[i].kind]

RECURSIVE SumUpTo(_, _)
SumUpTo(f, n) == IF n = 0 THEN 0 ELSE f[n] + SumUpTo(f, n - 1)

\* the direct URLs the endpoint hands to client c
DirectUrls(c) ==
  {f.url : f \in {g \in FormatsCatalogue(c) \cup AdaptiveCatalogue(c) : Has(g, "url")}}

\* the URLs the finished call handed to its caller
ResultUrls ==
  IF outcome # "returned" \/ result = NullObj \/ entry = "parseVideoId" THEN {}
  ELSE IF entry = "getBestStreamUrl" THEN {result.string}
  ELSE {result.streams[i].url : i \in 1..Len(result.streams)} \cup {result.bestStream.url}

\* C1: the clients are tried in the order of the clients array, ANDROID, IOS,
\* TVHTML5_EMBEDDED: a request for a client has been sent only when every
\* client before it has a finished, failed attempt (no response, status
\* UNPLAYABLE or LOGIN_REQUIRED, or no retained format), at most one request
\* is in flight, and no client after one that succeeded is ever sent one.
C1_SequentialProfiles ==
  /\ Cardinality(net) <= 1
  /\ \A i \in 1..Len(attempts) : attempts[i].client = i
  /\ \A c \in 1..NumClients :
       fetchCount[c] > 0 =>
         \A k \in 1..(c - 1) : k <= Len(attempts) /\ attempts[k].kind \in FailedKinds
  /\ \A i \in 1..Len(attempts) :
       attempts[i].kind = "success" =>
         \A c \in (i + 1)..NumClients : fetchCount[c] = 0

\* C1 witness: IOS was asked after ANDROID timed out, IOS succeeded, and
\* TVHTML5_EMBEDDED was never asked
C1_Witness ==
  /\ pc = "done"
  /\ AttemptKinds = <<"timeout", "success">>
  /\ fetchCount = <<1, 1, 0>>
  /\ net = {}

\* C2: when extract has ended, it returned null exactly when the identifier
\* did not resolve or all three clients failed, and it returned a result
\* whenever a client answered with an acceptable status and a non-empty
\* retained set.
C2_NoneIffEveryProfileFails ==
  (entry = "extract" /\ pc = "done") =>
    /\ (outcome = "returned" /\ result = NullObj)
         <=> \/ extractVideoId(input) = NullStr
             \/ /\ Len(attempts) = NumClients
                /\ \A i \in 1..Len(attempts) : attempts[i].kind \in FailedKinds
    /\ (\E i \in 1..Len(attempts) : attempts[i].kind = "success")
         => (outcome = "returned" /\ result # NullObj)

\* C3: a response with status UNPLAYABLE or LOGIN_REQUIRED contributes nothing:
\* the response the result is built from never has such a status, no URL of a
\* client that answered so is handed to the caller, the next client is asked
\* after it, and when ANDROID answers LOGIN_REQUIRED and IOS answers with one
\* muxed MP4 format the best stream is that format of IOS, with audio and video.
C3_GatedResponseContributesNothing ==
  /\ bestFormats # <<>> =>
       ~(/\ Has(playerResponse, "playabilityStatus")
         /\ playerResponse.playabilityStatus.status \in GatedStatuses)
  /\ \A i \in 1..Len(attempts) :
       attempts[i].kind \in GatedStatuses =>
         /\ i < NumClients => fetchCount[i + 1] = 1
         /\ ResultUrls \cap DirectUrls(attempts[i].client) = {}
  /\ (/\ entry = "extract"
      /\ pc = "done"
      /\ AttemptKinds = <<"LOGIN_REQUIRED", "success">>
      /\ playerResponse.streamingData.formats = <<Mp4Muxed720(2)>>
      /\ playerResponse.streamingData.adaptiveFormats = <<>>)
       => /\ outcome = "returned"
          /\ result.bestStream.url = Url(2, "22")
          /\ result.bestStream.itag = 22
          /\ result.bestStream.hasAudio
          /\ result.bestStream.hasVideo

\* C3 witness: ANDROID answered LOGIN_REQUIRED with direct-URL formats, IOS
\* answered with one muxed MP4 format, and the best stream is that of IOS
C3_Witness ==
  /\ entry = "extract"
  /\ pc = "done"
  /\ outcome = "returned"
  /\ AttemptKinds = <<"LOGIN_REQUIRED", "success">>
  /\ attempts[1].direct
  /\ playerResponse.streamingData.formats = <<Mp4Muxed720(2)>>
  /\ playerResponse.streamingData.adaptiveFormats = <<>>
  /\ result.bestStream.url = Url(2, "22")

\* C4: no exception leaves extract, getBestStreamUrl or parseVideoId, whatever
\* the input and whatever the endpoint does.
C4_NoExceptionPropagates == outcome # "threw"

\* C5: every attempt is bounded by the timeout: as long as the network call
\* of an attempt has not delivered its whole response, headers and body, its
\* timer is armed, so that the call is cancelled when the timer fires and
\* extract goes on to its end however the endpoint behaves.
C5_TimerArmedWhileCallPending == pc \in {"awaitHeaders", "awaitBody"} => timer

\* C6: a client is sent at most one request in a call, at most three requests
\* are sent in all, and none when the identifier does not resolve.
C6_AtMostOneFetchPerProfile ==
  /\ \A c \in 1..NumClients : fetchCount[c] <= 1
  /\ SumUpTo(fetchCount, NumClients) <= 3
  /\ extractVideoId(input) = NullStr => SumUpTo(fetchCount, NumClients) = 0

\* C6 witness: three clients failed in three ways, each asked once
C6_Witness ==
  /\ pc = "done"
  /\ AttemptKinds = <<"timeout", "http", "noformats">>
  /\ fetchCount = <<1, 1, 1>>

PreferredItags == {22, 59, 78, 135, 134}

CappedHeight(f) == Min(IF Has(f, "height") THEN f.height ELSE 0, 720)

CappedBitrate(f) == Min(f.bitrate, 3000000)

\* C7: a format whose itag is in the preference list scores strictly higher
\* than a format whose itag is not, whatever their heights and bitrates.
C7_PreferredOutranksUnlisted ==
  (spc = "scored" /\ sf.itag \in PreferredItags /\ sg.itag \notin PreferredItags)
    => scoreF > scoreG

\* the streams of a sequence of formats agree with it, entry by entry
IsStreamOf(s, f) ==
  /\ s.url = f.url
  /\ s.itag = f.itag
  /\ s.mimeType = f.mimeType
  /\ s.bitrate = f.bitrate

\* the container of the format is video/mp4
IsMp4(f) == parseMimeType(f.mimeType).container = P_VideoMp4

\* C8: the best stream is the format of the pool with the greatest score, the
\* earliest such in aggregation order; the pool is the formats whose container
\* is video/mp4 when there is one, all formats otherwise.
C8_BestIsFirstMaximumOfPool ==
  (ppc = "picked" /\ pformats # <<>>) =>
    LET pool == IF \E i \in 1..Len(pformats) : IsMp4(pformats[i])
                  THEN SelectSeq(pformats, IsMp4)
                  ELSE pformats
    IN \E i \in 1..Len(pool) :
         /\ IsStreamOf(pbest, pool[i])
         /\ \A j \in 1..Len(pool) : scoreFormat(pool[j]) <= scoreFormat(pool[i])
         /\ \A j \in 1..(i - 1) : scoreFormat(pool[j]) < scoreFormat(pool[i])

\* C8 witness: a WebM format outscores every MP4 format, two MP4 formats tie,
\* and the best stream is the earlier of the two
C8_Witness ==
  /\ ppc = "picked"
  /\ Len(pformats) = 3
  /\ pformats[1].itag = 45
  /\ pformats[2] = Mp4Muxed360(2)
  /\ pformats[3] = Mp4Muxed360(1)
  /\ pbest.url = Url(2, "18")

\* C9: between two formats absent from the preference list, the scores are
\* ordered as the pairs (capped height, capped bitrate) are ordered
\* lexicographically, and equal pairs score equal.
C9_LexicographicOrder ==
  (spc = "scored" /\ sf.itag \notin PreferredItags /\ sg.itag \notin PreferredItags)
    => /\ (\/ CappedHeight(sf) > CappedHeight(sg)
           \/ /\ CappedHeight(sf) = CappedHeight(sg)
              /\ CappedBitrate(sf) > CappedBitrate(sg))
            => scoreF > scoreG
       /\ (CappedHeight(sf) = CappedHeight(sg) /\ CappedBitrate(sf) = CappedBitrate(sg))
            => scoreF = scoreG

IsDirect(f) == Has(f, "url") /\ f.url # ""

IsDirectMuxed(f) == IsDirect(f) /\ isMuxedFormat(f)

\* C10: the streams of a result are the retained formats of the response it
\* is built from, one each and in aggregation order: the formats with a direct
\* URL, then the adaptive formats with a direct URL that are muxed.
C10_StreamsInAggregationOrder ==
  (entry = "extract" /\ pc = "done" /\ outcome = "returned" /\ result # NullObj) =>
    LET sd == playerResponse.streamingData
        retained == SelectSeq(sd.formats, IsDirect)
                      \o SelectSeq(sd.adaptiveFormats, IsDirectMuxed)
    IN /\ Len(result.streams) = Len(retained)
       /\ \A i \in 1..Len(retained) : IsStreamOf(result.streams[i], retained[i])

\* C10 witness: two retained formats, the second with the higher score and the
\* only one in the MP4 pool, are both listed, in response order
C10_Witness ==
  /\ entry = "extract"
  /\ pc = "done"
  /\ outcome = "returned"
  /\ result # NullObj
  /\ playerResponse.streamingData.formats = <<WebmMuxed360(1), Mp4Muxed720(1)>>
  /\ Len(result.streams) = 2
  /\ result.streams[1].itag = 43
  /\ result.streams[2].itag = 22
  /\ result.bestStream.itag = 22

HasResolved == rpc \in {"resolved", "again"}

\* C11: for every URL shape, an identifier component that is not exactly
\* eleven characters of [A-Za-z0-9_-] (shorter, longer, or with a disallowed
\* character) makes parseVideoId return null
C11_MalformedComponentRejected ==
  (HasResolved /\ rurl.shape \in URLShapes /\ rurl.component \notin SampleIds)
    => rid = NullStr

\* C12: parseVideoId returns a canonical identifier unchanged, and resolving
\* an identifier it returned gives that identifier again
C12_IdentityAndIdempotent ==
  /\ (HasResolved /\ rurl.shape = "bare") => rid = rurl.component
  /\ rpc = "again" => rid2 = rid

C12_Witness ==
  /\ rpc = "again"
  /\ rurl.shape = "watchShared"
  /\ rurl.component = Id_B
  /\ rid = Id_B
  /\ rid2 = Id_B

\* C13: a URL of any shape that carries a canonical identifier resolves to
\* that identifier, whatever query parameters, path segments or fragment
\* follow it
C13_CarriedIdResolved ==
  (HasResolved /\ rurl.shape \in URLShapes /\ rurl.component \in SampleIds)
    => rid = rurl.component

C13_Witness ==
  /\ rpc = "resolved"
  /\ rurl.shape = "short"
  /\ rurl.extra = E_SegmentQuery
  /\ rid = Id_B

\* extract has returned a result
ExtractReturnedResult ==
  entry = "extract" /\ pc = "done" /\ outcome = "returned" /\ result # NullObj

\* C15: a result is built from one response, that of the first client that
\* succeeded: every attempt before it failed and none follows it, every URL
\* of the streams and of the best stream is one the endpoint handed to that
\* client, and the title and the duration are those of that client's
\* response, present exactly when that response carries them.
C15_ResultFromFirstSuccess ==
  ExtractReturnedResult =>
    LET n == Len(attempts)
        c == attempts[n].client
    IN /\ attempts[n].kind = "success"
       /\ \A i \in 1..(n - 1) : attempts[i].kind \in FailedKinds
       /\ \A i \in 1..(n - 1) : attempts[i].client < c
       /\ \A d \in (c + 1)..NumClients : fetchCount[d] = 0
       /\ ResultUrls \subseteq DirectUrls(c)
       /\ \A d \in (1..NumClients) \ {c} : ResultUrls \cap DirectUrls(d) = {}
       /\ Has(result, "title") <=> Has(playerResponse, "videoDetails")
       /\ Has(result, "durationSeconds") <=> Has(playerResponse, "videoDetails")
       /\ Has(result, "title") => result.title = "Title as " \o clients[c]
       /\ Has(result, "durationSeconds") =>
            result.durationSeconds = [nan |-> FALSE, value |-> 212]

\* C15 witness: ANDROID answered LOGIN_REQUIRED with direct-URL formats and
\* metadata, IOS answered without formats, and the result is all
\* TVHTML5_EMBEDDED's
C15_Witness ==
  /\ ExtractReturnedResult
  /\ AttemptKinds = <<"LOGIN_REQUIRED", "noformats", "success">>
  /\ attempts[1].direct
  /\ Len(result.streams) = 2
  /\ Has(result, "title")
  /\ Has(result, "durationSeconds")
  /\ result.title = "Title as TVHTML5_EMBEDDED"
  /\ result.durationSeconds.value = 212

\* how many entries of fs satisfy Test
CountOf(fs, Test(_)) == Cardinality({i \in 1..Len(fs) : Test(fs[i])})

\* C16: every stream of a result, and the best stream, has a non-empty URL
\* that the endpoint handed out as a direct URL; the streams are as many as
\* the direct-URL entries of the formats collection, whatever their
\* classification, plus the direct-URL entries of the adaptive collection
\* that are muxed, and no entry without a URL (signature-cipher only) or any
\* other adaptive entry is among them.
C16_OnlyDirectUrlsRetained ==
  /\ ExtractReturnedResult =>
       LET fs == playerResponse.streamingData.formats
           as == playerResponse.streamingData.adaptiveFormats
           nF == CountOf(fs, IsDirect)
           nA == CountOf(as, IsDirectMuxed)
           direct == SelectSeq(fs, IsDirect)
           muxed == SelectSeq(as, IsDirectMuxed)
       IN /\ \A i \in 1..Len(result.streams) : result.streams[i].url # ""
          /\ result.bestStream.url # ""
          /\ Len(result.streams) = nF + nA
          /\ \A i \in 1..nF : result.streams[i].url = direct[i].url
          /\ \A j \in 1..nA : result.streams[nF + j].url = muxed[j].url
          /\ \A j \in 1..nA : result.streams[nF + j].hasAudio
  /\ (entry = "getBestStreamUrl" /\ outcome = "returned" /\ result # NullObj)
       => result.string # ""
  /\ ResultUrls \subseteq UNION {DirectUrls(c) : c \in 1..NumClients}

\* C16 witness: the formats collection and the adaptive collection hold the
\* same video-only entry with a direct URL; the result has the one stream,
\* from the formats collection
C16_Witness ==
  /\ ExtractReturnedResult
  /\ playerResponse.streamingData.formats = <<Mp4VideoOnly1080(1)>>
  /\ playerResponse.streamingData.adaptiveFormats = <<Mp4VideoOnly1080(1)>>
  /\ Len(result.streams) = 1
  /\ result.streams[1].url = Url(1, "137")
  /\ ~result.streams[1].hasAudio

\* what follows codecs= in a MIME type, empty when it has no codecs clause
CodecsClause(mimeType) ==
  LET i == IndexOfAnyCase(mimeType, P_Codecs, 1)
  IN SubSeq(mimeType, i + Len(P_Codecs), Len(mimeType))

\* how many comma-separated codecs the codecs clause lists
CodecsListed(mimeType) ==
  LET clause == CodecsClause(mimeType)
  IN IF clause = <<>> THEN 0
     ELSE 1 + Cardinality({i \in 1..Len(clause) : clause[i] = ","})

\* the main type of a MIME type: what precedes its slash
MainType(mimeType) == SubSeq(mimeType, 1, IndexOfAny(mimeType, {"/"}, 1) - 1)

MuxedRule(f) ==
  \/ CodecsListed(f.mimeType) > 1
  \/ (Has(f, "audioQuality") /\ Has(f, "qualityLabel"))

HasAudioRule(f) == Has(f, "audioQuality") \/ MuxedRule(f)

HasVideoRule(f) == Has(f, "qualityLabel") \/ MainType(f.mimeType) = <<"v","i","d","e","o">>

\* C17: a format is classified muxed exactly when its codecs clause lists
\* more than one codec or it has both audioQuality and qualityLabel; each
\* stream has hasAudio exactly when its format has audioQuality or is muxed,
\* and hasVideo exactly when its format has qualityLabel or a video MIME
\* type, whatever else is in the list and wherever it stands; the best
\* stream carries the flags of the format it was picked from.
C17_ClassificationRules ==
  cpc = "classified" =>
    /\ Len(cstreams) = Len(cformats)
    /\ \A i \in 1..Len(cformats) :
         /\ isMuxedFormat(cformats[i]) <=> MuxedRule(cformats[i])
         /\ cstreams[i].url = cformats[i].url
         /\ cstreams[i].hasAudio <=> HasAudioRule(cformats[i])
         /\ cstreams[i].hasVideo <=> HasVideoRule(cformats[i])
    /\ cformats # <<>> =>
         \E i \in 1..Len(cformats) :
           /\ cbest.url = cformats[i].url
           /\ cbest.hasAudio <=> HasAudioRule(cformats[i])
           /\ cbest.hasVideo <=> HasVideoRule(cformats[i])

\* C17 witness: an audio WebM format with neither marker, then a one-codec
\* MP4 format with both; the first stream has neither flag, the second is
\* muxed by its markers alone and is the best stream
C17_Witness ==
  /\ cpc = "classified"
  /\ cformats = <<ClassifyFormat("weba", FALSE, FALSE), ClassifyFormat("mp4v", TRUE, TRUE)>>
  /\ ~cstreams[1].hasAudio
  /\ ~cstreams[1].hasVideo
  /\ cstreams[2].hasAudio
  /\ cstreams[2].hasVideo
  /\ cbest = cstreams[2]

\* C18: a result of extract has at least one stream and a best stream that is
\* equal, field for field, to one of its streams; getBestStreamUrl returns
\* null exactly when no client succeeded, which is when extract returns
\* null, and otherwise the URL of one of the streams extract lists.
C18_BestStreamIsListed ==
  /\ ExtractReturnedResult =>
       /\ Len(result.streams) > 0
       /\ result.bestStream # NullObj
       /\ \E i \in 1..Len(result.streams) : result.streams[i] = result.bestStream
  /\ (entry \in {"extract", "getBestStreamUrl"} /\ pc = "done" /\ outcome = "returned") =>
       (result = NullObj <=> "success" \notin Range(AttemptKinds))
  /\ (entry = "getBestStreamUrl" /\ pc = "done" /\ outcome = "returned"
         /\ result # NullObj) =>
       \E i \in 1..Len(bestFormats) : result.string = bestFormats[i].url

\* C18 witness: of two streams the second is the best one
C18_Witness ==
  /\ ExtractReturnedResult
  /\ Len(result.streams) = 2
  /\ result.streams[1] # result.streams[2]
  /\ result.bestStream = result.streams[2]
  /\ result.bestStream.quality = "720p"

\* what a call of extract on its own returns for identifier id when the
\* endpoint does to its requests what got lists, from client c on
RECURSIVE Alone(_, _, _)
Alone(id, got, c) ==
  IF c > Len(got) THEN NullObj
  ELSE IF got[c].kind = "timeout" THEN Alone(id, got, c + 1)
  ELSE IF got[c].body.playabilityStatus.status \in GatedStatuses
    THEN Alone(id, got, c + 1)
  ELSE [streams |-> <<ToStream(got[c].body.streamingData.formats[1])>>,
        bestStream |-> ToStream(got[c].body.streamingData.formats[1]),
        videoId |-> id,
        title |-> got[c].body.videoDetails.title,
        durationSeconds |-> [nan |-> FALSE, value |-> 212]]

\* the video call k asks for
CallVideo(k) == IF k % 2 = 1 THEN Id_A ELSE Id_B

Awaiting(st) == st.pc \in {"awaitHeaders", "awaitBody"}

\* C14: calls of extract that run at the same time do not interfere: the
\* request of a call stays in flight until the call itself settles or
\* aborts it, whatever timers of other calls fire; the client a call is at
\* and the formats it keeps follow from what the endpoint did to its own
\* requests; and a call that has ended returned what it returns on its own
\* against the same endpoint behaviour.
C14_CallsDoNotInterfere ==
  \A k \in DOMAIN calls :
    LET st == calls[k]
    IN /\ Awaiting(st) <=> <<k, st.idx>> \in cnet
       /\ \A c \in 1..NumClients : <<k, c>> \in cnet => c = st.idx
       /\ Awaiting(st) => st.idx = Len(st.got) + 1
       /\ st.pc = "done" =>
            /\ st.outcome = "returned"
            /\ st.result = Alone(CallVideo(k), st.got, 1)
            /\ st.bestFormats = IF st.result = NullObj THEN <<>>
                                 ELSE <<Mp4Muxed720(st.idx)>>

\* C14 witness: the timer of call 1 fired at its first client while a request
\* of call 2 was in flight; call 2 got its result from its first client, call
\* 1 from its second
C14_Witness ==
  /\ calls # <<>>
  /\ calls[1].pc = "done"
  /\ calls[2].pc = "done"
  /\ calls[2].overlapped
  /\ calls[1].got[1].kind = "timeout"
  /\ calls[1].result # NullObj
  /\ calls[1].result.bestStream.url = Url(2, "22")
  /\ Len(calls[2].got) = 1
  /\ calls[2].result # NullObj
  /\ calls[2].result.bestStream.url = Url(1, "22")
  /\ calls[2].result.videoId = Id_B

====
